---- MODULE Spec2Model ----
(***************************************************************************)
(* Token lifecycle of a PocketBase session (src/non_blocking/mod.rs and    *)
(* src/blocking/mod.rs, which are line-for-line the same logic): the token *)
(* slot, is_valid, auth_refresh, the authenticate decorator and the record *)
(* and batch operations that go through it.                                *)
(*                                                                         *)
(* Option<T> is modelled as a sequence: <<>> is None, <<x>> is Some(x).    *)
(* The remote server and the transport are the environment: every network  *)
(* call takes its response from the set of responses the client code       *)
(* distinguishes.  The session reads the clock once per call, on entry of  *)
(* is_valid; the time a call takes is time passing before the next call.   *)
(***************************************************************************)
EXTENDS Integers, Sequences, FiniteSets, TLC

VARIABLES
    now,       \* the clock, Utc::now() in seconds
    token,     \* PocketBase::token, Option<Token>
    net,       \* the requests the last call sent, in order
    last,      \* the last call: see Last
    panicked,  \* a call ended in a panic (unwrap on an undecodable body)
    requests,  \* BatchBuilder::requests of the live builder, None without one
    api,       \* which of the two interfaces the program uses: the PocketBase
               \* session (non_blocking/mod.rs) or Client / AuthorizedClient
               \* (client.rs); with Client, `token` is AuthorizedClient::token
               \* and None means that only the plain Client exists so far
    call,      \* the function under evaluation and its argument, None when
               \* the program is followed call by call
    value      \* the value that function returned, None before it returns

vars == <<now, token, net, last, panicked, requests, api, call, value>>

(* ---------------------------------------------------------------- bounds *)
MaxTime == 1
MaxExp == 2
MaxBatch == 2

(* ------------------------------------------------------------ value sets *)
None == <<>>
Some(x) == <<x>>

Identifiers == {"", "users"}
RecordCollections == {"posts"}
RecordIds == {"r1"}
FileNames == {"avatar"}
Messages == {"m1"}

\* The claims the server signs.  Non-refreshable bearers are issued with one
\* expiry only, which keeps the set small.
Claims == {c \in [exp : 0..MaxExp, refreshable : BOOLEAN, ty : {"auth"}] :
             c.refreshable \/ c.exp = 1}

\* A bearer is a signed string with a payload segment; the payload either
\* holds the claims or is not a claims object at all.
Bearers == [payload : {None} \cup {Some(c) : c \in Claims}]

\* Claims::decode_unsafe: reads the payload without verifying the signature.
decode_unsafe(bearer) ==
    IF bearer.payload = None
    THEN [ok |-> FALSE, claims |-> None]
    ELSE [ok |-> TRUE, claims |-> bearer.payload]

Custom(m) == [kind |-> "Custom", message |-> m]
Authorization(m) == [kind |-> "Authorization", message |-> m]
Unauthorized == [kind |-> "Unauthorized", message |-> ""]

Ok(v) == [ok |-> TRUE, val |-> v, err |-> Custom("")]
Err(e) == [ok |-> FALSE, val |-> "none", err |-> e]

\* What the server / transport can answer to an auth request, as far as the
\* client tells the cases apart (AuthResult is an untagged enum).
AuthResponses ==
    {[kind |-> "transport_error", message |-> None, token |-> [payload |-> None]],
     [kind |-> "bad_body", message |-> None, token |-> [payload |-> None]]}
    \cup {[kind |-> "error", message |-> m, token |-> [payload |-> None]] :
            m \in {None} \cup {Some(x) : x \in Messages}}
    \cup {[kind |-> "success", message |-> None, token |-> b] : b \in Bearers}

\* Status codes of both classes StatusCode::is_success tells apart.
Statuses == {200, 204, 404}

\* What the server / transport can answer to a record, batch or health request.
OpResponses ==
    {[kind |-> "transport_error", status |-> 0, decodable |-> FALSE]}
    \cup [kind : {"response"}, status : Statuses, decodable : BOOLEAN]

Request(method, path, authorization) ==
    [method |-> method, path |-> path, authorization |-> authorization]

(* ------------------------------------------------- JSON values and text *)

\* Text is a sequence of pieces; two texts are the same string when they are
\* the same sequence.
Digits == <<"0", "1", "2", "3", "4", "5", "6", "7", "8", "9">>

\* i64 / u64 to_string: decimal digits, most significant first.
RECURSIVE decimal(_)
decimal(n) ==
    IF n < 10 THEN <<Digits[n + 1]>> ELSE decimal(n \div 10) \o <<Digits[(n % 10) + 1]>>

\* serde_json::Value, as a pair of the variant and what it holds
Null == <<"null", "null">>
Bool(b) == <<"bool", b>>
Number(n) == <<"number", n>>
String(x) == <<"string", x>>
\* items: the sequence of the elements
Array(items) == <<"array", items>>
\* members: the sequence of <<key, value>> pairs in the order of the map
Object(members) == <<"object", members>>

\* serde_json::to_string of a scalar
scalar_json(x) ==
    CASE x[1] = "null" -> <<"null">>
      [] x[1] = "bool" -> IF x[2] THEN <<"true">> ELSE <<"false">>
      [] x[1] = "number" -> decimal(x[2])
      [] x[1] = "string" -> <<"\"", x[2], "\"">>

\* serde_json::to_string
RECURSIVE to_json(_)
RECURSIVE items_json(_, _)
RECURSIVE members_json(_, _)
to_json(x) ==
    CASE x[1] = "array" -> <<"[">> \o items_json(x[2], 1) \o <<"]">>
      [] x[1] = "object" -> <<"{">> \o members_json(x[2], 1) \o <<"}">>
      [] OTHER -> scalar_json(x)
items_json(items, i) ==
    IF i > Len(items) THEN <<>>
    ELSE (IF i > 1 THEN <<",">> ELSE <<>>) \o to_json(items[i]) \o items_json(items, i + 1)
members_json(members, i) ==
    IF i > Len(members) THEN <<>>
    ELSE (IF i > 1 THEN <<",">> ELSE <<>>)
         \o <<"\"", members[i][1], "\"", ":">> \o to_json(members[i][2])
         \o members_json(members, i + 1)

\* The values a field of a record takes: one of each kind of Value.
FieldValues ==
    {Null, Bool(TRUE), Bool(FALSE), Number(7), Number(12), String("s"),
     Array(<<Number(7), String("s")>>), Array(<<>>),
     Object(<<<<"k", Bool(FALSE)>>, <<"n", Null>>>>)}

\* The field names of a record, in the order of serde_json::Map (sorted keys).
FieldNames == <<"a", "b">>

\* A record that serializes to a JSON object: some of the fields, with values.
Records ==
    UNION {[fs -> FieldValues] : fs \in SUBSET {FieldNames[i] : i \in DOMAIN FieldNames}}

\* CreateOptions / UpdateOptions { expand, fields }
OptionalTexts == {None, Some("x")}
Options == [expand : OptionalTexts, fields : OptionalTexts]
NoOptions == [expand |-> None, fields |-> None]

(* ------------------------------------------------------------ the session *)

\* Token { auth, expires, refreshable, ty, collection }
Token(collection, auth, claims) ==
    [collection |-> collection,
     auth |-> auth,
     refreshable |-> claims.refreshable,
     ty |-> claims.ty,
     expires |-> claims.exp]

\* Mutant: the comparison lets the boundary now == expires through.
is_valid_inclusive(tok, t) ==
    tok # None /\ tok[1].expires >= t

\* Mutant: the expiry is compared for inequality.
is_valid_not_equal(tok, t) ==
    tok # None /\ tok[1].expires # t

\* PocketBase::is_valid
is_valid(tok, t) ==
    tok # None /\ tok[1].expires > t

bearer_of(tok) ==
    IF tok = None THEN None ELSE Some(tok[1].auth)

\* Mutant: the refresh is sent although the slot is empty.
refresh_without_token_sends ==
    [token |-> None,
     net |-> <<Request("POST", <<"api", "collections", "", "auth-refresh">>, None)>>,
     result |-> Err(Custom("unauthorized client; try running a auth_with_* method first"))]

\* auth_refresh when token.take() yields None: the final Err, nothing sent.
refresh_without_token ==
    [token |-> None, net |-> <<>>,
     result |-> Err(Custom("unauthorized client; try running a auth_with_* method first"))]

\* Mutant: the request is sent again.
refresh_requests_twice(old) ==
    <<Request("POST", <<"api", "collections", old.collection, "auth-refresh">>,
              Some(old.auth)),
      Request("POST", <<"api", "collections", old.collection, "auth-refresh">>,
              Some(old.auth))>>

\* Mutant: the refresh request carries no Authorization header.
refresh_requests_unauthenticated(old) ==
    <<Request("POST", <<"api", "collections", old.collection, "auth-refresh">>,
              None)>>

\* Mutant: a token whose claims say it is not refreshable is not sent.
refresh_requests_if_refreshable(old) ==
    IF old.refreshable
    THEN <<Request("POST", <<"api", "collections", old.collection, "auth-refresh">>,
                   Some(old.auth))>>
    ELSE <<>>

\* The requests auth_refresh sends for the token `old` it took from the slot;
\* AuthorizedClient::refresh sends the same for the token it borrows.
refresh_requests(old) ==
    <<Request("POST", <<"api", "collections", old.collection, "auth-refresh">>,
              Some(old.auth))>>

\* Mutant: the new token keeps the bearer the session held.
refreshed_token_keeps_bearer(old, bearer, claims) ==
    Some(Token(old.collection, old.auth, claims))

\* Mutant: the new bearer is stored with the expiry the session held.
refreshed_token_keeps_expiry(old, bearer, claims) ==
    Some([Token(old.collection, bearer, claims) EXCEPT !.expires = old.expires])

\* Mutant: the new token is stored without the name of the collection.
refreshed_token_unnamed(old, bearer, claims) ==
    Some(Token("", bearer, claims))

\* The token auth_refresh stores on success.
refreshed_token(old, bearer, claims) ==
    Some(Token(old.collection, bearer, claims))

\* Mutant: the token is read in place and stays in the slot.
slot_after_peek(tok) == tok

\* self.token.take(): the slot is empty from here on.
slot_after_take(tok) == None

\* PocketBase::auth_refresh.  `resp` is what the transport and the server
\* answer to the one request the function may send.  The result holds the
\* token slot afterwards, the requests issued and the returned Result.
auth_refresh(tok, resp) ==
    IF tok = None
    THEN refresh_without_token
    ELSE LET old == tok[1]
             taken == slot_after_take(tok)
             decoded == decode_unsafe(resp.token)
         IN  CASE resp.kind = "transport_error" ->
                    [token |-> taken, net |-> refresh_requests(old),
                     result |-> Err(Custom("transport error"))]
               [] resp.kind = "bad_body" ->
                    [token |-> taken, net |-> refresh_requests(old),
                     result |-> Err(Custom("json error"))]
               [] resp.kind = "error" ->
                    [token |-> taken, net |-> refresh_requests(old),
                     result |-> Err(Custom(IF resp.message = None
                                           THEN "failed to authenticate user"
                                           ELSE resp.message[1]))]
               [] resp.kind = "success" /\ ~decoded.ok ->
                    [token |-> taken, net |-> refresh_requests(old),
                     result |-> Err(Custom("jwt error"))]
               [] resp.kind = "success" /\ decoded.ok ->
                    [token |-> refreshed_token(old, resp.token, decoded.claims[1]),
                     net |-> refresh_requests(old),
                     result |-> Ok("unit")]

\* Mutant: the error of the refresh is dropped.
after_refresh_swallows(r) ==
    [token |-> r.token, net |-> r.net, refreshCalls |-> 1,
     result |-> Ok(bearer_of(r.token))]

\* authenticate after its call of auth_refresh returned r: `?` propagates the
\* error, otherwise the bearer now in the slot is handed to the caller.
after_refresh(r) ==
    [token |-> r.token, net |-> r.net, refreshCalls |-> 1,
     result |-> IF r.result.ok THEN Ok(bearer_of(r.token)) ELSE r.result]

\* Mutant: the refresh does not look at the validity of the token.
authenticate_unconditional(tok, t, resp) ==
    IF tok # None
    THEN after_refresh(auth_refresh(tok, resp))
    ELSE [token |-> tok, net |-> <<>>, refreshCalls |-> 0,
          result |-> Ok(bearer_of(tok))]

\* Mutant: the bearer is read before the refresh.
authenticate_stale(tok, t, resp) ==
    IF tok # None /\ ~is_valid(tok, t)
    THEN [token |-> auth_refresh(tok, resp).token, net |-> auth_refresh(tok, resp).net,
          refreshCalls |-> 1,
          result |-> IF auth_refresh(tok, resp).result.ok
                     THEN Ok(bearer_of(tok)) ELSE auth_refresh(tok, resp).result]
    ELSE [token |-> tok, net |-> <<>>, refreshCalls |-> 0,
          result |-> Ok(bearer_of(tok))]

\* Mutant: the token is refreshed ahead of its expiry.
authenticate_ahead(tok, t, resp) ==
    IF tok # None /\ ~is_valid(tok, t + 1)
    THEN after_refresh(auth_refresh(tok, resp))
    ELSE [token |-> tok, net |-> <<>>, refreshCalls |-> 0,
          result |-> Ok(bearer_of(tok))]

\* ExtendAuth for PocketBase::authenticate, entered at time t.
authenticate(tok, t, resp) ==
    IF tok # None /\ ~is_valid(tok, t)
    THEN after_refresh(auth_refresh(tok, resp))
    ELSE [token |-> tok, net |-> <<>>, refreshCalls |-> 0,
          result |-> Ok(bearer_of(tok))]

\* Mutant: the token is stored without the name of the collection.
password_token_unnamed(identifier, bearer, claims) ==
    Some(Token("", bearer, claims))

\* The token auth_with_password stores on success.
password_token(identifier, bearer, claims) ==
    Some(Token(identifier, bearer, claims))

\* Mutant: the slot is emptied before the request is sent.
auth_with_password_takes(tok, identifier, resp) ==
    LET req == Request("POST",
                       <<"api", "collections", identifier, "auth-with-password">>,
                       None)
        decoded == decode_unsafe(resp.token)
    IN  CASE resp.kind = "transport_error" ->
               [token |-> None, net |-> <<req>>, panic |-> FALSE,
                result |-> Err(Custom("transport error"))]
          [] resp.kind = "bad_body" ->
               [token |-> None, net |-> <<req>>, panic |-> TRUE,
                result |-> Err(Custom("panic"))]
          [] resp.kind = "error" ->
               [token |-> None, net |-> <<req>>, panic |-> FALSE,
                result |-> Err(Custom(IF resp.message = None
                                      THEN "failed to authenticate user"
                                      ELSE resp.message[1]))]
          [] resp.kind = "success" /\ ~decoded.ok ->
               [token |-> None, net |-> <<req>>, panic |-> FALSE,
                result |-> Err(Custom("jwt error"))]
          [] resp.kind = "success" /\ decoded.ok ->
               [token |-> password_token(identifier, resp.token, decoded.claims[1]),
                net |-> <<req>>, panic |-> FALSE,
                result |-> Ok("unit")]

\* CollectionBuilder::auth_with_password on collection `identifier`.
auth_with_password(tok, identifier, resp) ==
    LET req == Request("POST",
                       <<"api", "collections", identifier, "auth-with-password">>,
                       None)
        decoded == decode_unsafe(resp.token)
    IN  CASE resp.kind = "transport_error" ->
               [token |-> tok, net |-> <<req>>, panic |-> FALSE,
                result |-> Err(Custom("transport error"))]
          [] resp.kind = "bad_body" ->
               \* .json_async::<AuthResult>().await.unwrap()
               [token |-> tok, net |-> <<req>>, panic |-> TRUE,
                result |-> Err(Custom("panic"))]
          [] resp.kind = "error" ->
               [token |-> tok, net |-> <<req>>, panic |-> FALSE,
                result |-> Err(Custom(IF resp.message = None
                                      THEN "failed to authenticate user"
                                      ELSE resp.message[1]))]
          [] resp.kind = "success" /\ ~decoded.ok ->
               [token |-> tok, net |-> <<req>>, panic |-> FALSE,
                result |-> Err(Custom("jwt error"))]
          [] resp.kind = "success" /\ decoded.ok ->
               [token |-> password_token(identifier, resp.token, decoded.claims[1]),
                net |-> <<req>>, panic |-> FALSE,
                result |-> Ok("unit")]

DecoratedOps == {"get_list", "get_one", "create", "update", "delete", "send"}

\* Operations that build a form from caller data before authenticating.
PreparingOps == {"create", "update", "send"}

op_method(op) ==
    CASE op \in {"get_list", "get_one"} -> "GET"
      [] op \in {"create", "send"} -> "POST"
      [] op = "update" -> "PATCH"
      [] op = "delete" -> "DELETE"

op_path(op, identifier, id) ==
    CASE op \in {"get_list", "create"} -> <<"api", "collections", identifier, "records">>
      [] op \in {"get_one", "update", "delete"} ->
            <<"api", "collections", identifier, "records", id>>
      [] op = "send" -> <<"api", "batch">>

\* Mutant: the status of the response is not looked at.
is_success_any(status) == TRUE

\* StatusCode::is_success
is_success(status) == status >= 200 /\ status < 300

\* The tail of every record operation and of BatchBuilder::send: status check
\* and decoding of the body.
op_result(op, resp) ==
    CASE resp.kind = "transport_error" -> Err(Custom("transport error"))
      [] resp.kind = "response" /\ ~is_success(resp.status) ->
            IF resp.decodable THEN Err(Custom("server error")) ELSE Err(Custom("json error"))
      [] resp.kind = "response" /\ is_success(resp.status) ->
            IF op = "delete" \/ resp.decodable THEN Ok("value") ELSE Err(Custom("json error"))

\* Mutant: without a bearer the request goes out unauthenticated.
send_with_anonymous(a, op, identifier, id, buildOk, oresp) ==
    IF ~a.result.ok
    THEN [token |-> a.token, net |-> a.net, refreshCalls |-> a.refreshCalls,
          authCalls |-> 1, result |-> a.result]
    ELSE IF ~buildOk
    THEN [token |-> a.token, net |-> a.net, refreshCalls |-> a.refreshCalls,
          authCalls |-> 1, result |-> Err(Custom("build error"))]
    ELSE [token |-> a.token,
          net |-> Append(a.net, Request(op_method(op), op_path(op, identifier, id),
                                        a.result.val)),
          refreshCalls |-> a.refreshCalls, authCalls |-> 1,
          result |-> op_result(op, oresp)]

\* What a record operation or a batch send does with the outcome `a` of
\* authenticate: `?` on the error, ok_or("client is not authorized")?, the
\* request builder, the request.
send_with(a, op, identifier, id, buildOk, oresp) ==
    IF ~a.result.ok
    THEN [token |-> a.token, net |-> a.net, refreshCalls |-> a.refreshCalls,
          authCalls |-> 1, result |-> a.result]
    ELSE IF a.result.val = None
    THEN [token |-> a.token, net |-> a.net, refreshCalls |-> a.refreshCalls,
          authCalls |-> 1, result |-> Err(Custom("client is not authorized"))]
    ELSE IF ~buildOk
    THEN [token |-> a.token, net |-> a.net, refreshCalls |-> a.refreshCalls,
          authCalls |-> 1, result |-> Err(Custom("build error"))]
    ELSE [token |-> a.token,
          net |-> Append(a.net, Request(op_method(op), op_path(op, identifier, id),
                                        a.result.val)),
          refreshCalls |-> a.refreshCalls, authCalls |-> 1,
          result |-> op_result(op, oresp)]

\* Mutant: authenticate comes before the local preparation.
decorated_authenticates_first(tok, t, op, identifier, id, prepOk, buildOk, rresp, oresp) ==
    IF op \in PreparingOps /\ ~prepOk
    THEN [token |-> authenticate(tok, t, rresp).token,
          net |-> authenticate(tok, t, rresp).net,
          refreshCalls |-> authenticate(tok, t, rresp).refreshCalls, authCalls |-> 1,
          result |-> Err(Custom("expected record to be a mapping of fields to values"))]
    ELSE send_with(authenticate(tok, t, rresp), op, identifier, id, buildOk, oresp)

\* A record operation (get_list, get_one, create, update, delete) or a batch
\* send on the session: local preparation, authenticate, the request.
decorated(tok, t, op, identifier, id, prepOk, buildOk, rresp, oresp) ==
    IF op \in PreparingOps /\ ~prepOk
    THEN [token |-> tok, net |-> <<>>, refreshCalls |-> 0, authCalls |-> 0,
          result |-> Err(Custom("expected record to be a mapping of fields to values"))]
    ELSE send_with(authenticate(tok, t, rresp), op, identifier, id, buildOk, oresp)

(* ------------------------------------------------- the authorized client *)

UserIds == {"u1"}

\* AuthResult as the client reads it: a Success also carries the record of the
\* user, whose "id" is a string (Some) or is missing or not a string (None).
ClientAuthResponses ==
    {[kind |-> r.kind, message |-> r.message, token |-> r.token, record |-> None] :
        r \in {x \in AuthResponses : x.kind # "success"}}
    \cup {[kind |-> "success", message |-> None, token |-> b, record |-> u] :
            b \in Bearers, u \in {None} \cup {Some(x) : x \in UserIds}}

\* client::Token { collection, user, auth, expires, refreshable, ty }
ClientToken(collection, user, auth, claims) ==
    [collection |-> collection,
     user |-> user,
     auth |-> auth,
     refreshable |-> claims.refreshable,
     ty |-> claims.ty,
     expires |-> claims.exp]

\* Token::is_expired at time t
is_expired(tok, t) == tok.expires < t

\* Mutant: requests of an authorized client go out without the header.
client_authorization_anonymous(tok) == None

\* The Authorization header of a request built with get / post / patch /
\* delete: none on the plain Client, the stored bearer on AuthorizedClient.
client_authorization(tok) ==
    IF tok = None THEN None ELSE Some(tok[1].auth)

\* Mutant: the token is written before the outcome is known, bearer first.
client_refresh_early_write(old, resp) ==
    LET decoded == decode_unsafe(resp.token)
        written == Some([old EXCEPT !.auth = resp.token])
    IN  CASE resp.kind = "transport_error" ->
               [token |-> Some(old), net |-> refresh_requests(old), panic |-> FALSE,
                result |-> Err(Custom("transport error"))]
          [] resp.kind = "bad_body" ->
               [token |-> Some(old), net |-> refresh_requests(old), panic |-> FALSE,
                result |-> Err(Custom("json error"))]
          [] resp.kind = "error" ->
               [token |-> Some(old), net |-> refresh_requests(old), panic |-> FALSE,
                result |-> Err(Custom(IF resp.message = None
                                      THEN "failed to authenticate user"
                                      ELSE resp.message[1]))]
          [] resp.kind = "success" /\ ~decoded.ok ->
               [token |-> written, net |-> refresh_requests(old), panic |-> FALSE,
                result |-> Err(Custom("jwt error"))]
          [] resp.kind = "success" /\ decoded.ok /\ resp.record = None ->
               [token |-> written, net |-> refresh_requests(old), panic |-> TRUE,
                result |-> Err(Custom("panic"))]
          [] resp.kind = "success" /\ decoded.ok /\ resp.record # None ->
               [token |-> Some(ClientToken(old.collection, resp.record[1], resp.token,
                                           decoded.claims[1])),
                net |-> refresh_requests(old), panic |-> FALSE,
                result |-> Ok("unit")]

\* AuthorizedClient::refresh on the token `old` of the client.  The token is
\* borrowed, not taken: it stays as it is unless the refresh succeeds.
client_refresh(old, resp) ==
    LET decoded == decode_unsafe(resp.token)
    IN  CASE resp.kind = "transport_error" ->
               [token |-> Some(old), net |-> refresh_requests(old), panic |-> FALSE,
                result |-> Err(Custom("transport error"))]
          [] resp.kind = "bad_body" ->
               [token |-> Some(old), net |-> refresh_requests(old), panic |-> FALSE,
                result |-> Err(Custom("json error"))]
          [] resp.kind = "error" ->
               [token |-> Some(old), net |-> refresh_requests(old), panic |-> FALSE,
                result |-> Err(Custom(IF resp.message = None
                                      THEN "failed to authenticate user"
                                      ELSE resp.message[1]))]
          [] resp.kind = "success" /\ ~decoded.ok ->
               [token |-> Some(old), net |-> refresh_requests(old), panic |-> FALSE,
                result |-> Err(Custom("jwt error"))]
          [] resp.kind = "success" /\ decoded.ok /\ resp.record = None ->
               \* record.as_object().unwrap().get("id").unwrap().as_str().unwrap()
               [token |-> Some(old), net |-> refresh_requests(old), panic |-> TRUE,
                result |-> Err(Custom("panic"))]
          [] resp.kind = "success" /\ decoded.ok /\ resp.record # None ->
               [token |-> Some(ClientToken(old.collection, resp.record[1], resp.token,
                                           decoded.claims[1])),
                net |-> refresh_requests(old), panic |-> FALSE,
                result |-> Ok("unit")]

\* CollectionBuilder<P>::auth_with_password of the generic client interface,
\* on collection `identifier`.  It returns a new AuthorizedClient; `token` in
\* the result is the token of the client the caller holds afterwards.
client_auth_with_password(tok, identifier, resp) ==
    LET req == Request("POST",
                       <<"api", "collections", identifier, "auth-with-password">>,
                       client_authorization(tok))
        decoded == decode_unsafe(resp.token)
    IN  CASE resp.kind = "transport_error" ->
               [token |-> tok, net |-> <<req>>, panic |-> FALSE,
                result |-> Err(Custom("transport error"))]
          [] resp.kind = "bad_body" ->
               \* .json_async::<AuthResult>().await.unwrap()
               [token |-> tok, net |-> <<req>>, panic |-> TRUE,
                result |-> Err(Custom("panic"))]
          [] resp.kind = "error" ->
               [token |-> tok, net |-> <<req>>, panic |-> FALSE,
                result |-> Err(Authorization(IF resp.message = None
                                             THEN "failed to authenticate user"
                                             ELSE resp.message[1]))]
          [] resp.kind = "success" /\ ~decoded.ok ->
               [token |-> tok, net |-> <<req>>, panic |-> FALSE,
                result |-> Err(Custom("jwt error"))]
          [] resp.kind = "success" /\ decoded.ok /\ resp.record = None ->
               [token |-> tok, net |-> <<req>>, panic |-> TRUE,
                result |-> Err(Custom("panic"))]
          [] resp.kind = "success" /\ decoded.ok /\ resp.record # None ->
               [token |-> Some(ClientToken(identifier, resp.record[1], resp.token,
                                           decoded.claims[1])),
                net |-> <<req>>, panic |-> FALSE,
                result |-> Ok("client")]

ClientOps == {"get_list", "get_one", "create", "update", "delete"}

\* A record operation of CollectionBuilder<P>: local preparation, the request
\* builder, the request.  Nothing in it looks at the expiry of the token.
client_request(tok, op, identifier, id, prepOk, buildOk, oresp) ==
    IF op \in PreparingOps /\ ~prepOk
    THEN [net |-> <<>>,
          result |-> Err(Custom("expected record to be a mapping of fields to values"))]
    ELSE IF ~buildOk
    THEN [net |-> <<>>, result |-> Err(Custom("build error"))]
    ELSE [net |-> <<Request(op_method(op), op_path(op, identifier, id),
                            client_authorization(tok))>>,
          result |-> op_result(op, oresp)]

(* ---------------------------------------------------------------- actions *)

\* The record of the last call: what the session held and the time on entry,
\* how often the call entered authenticate and auth_refresh, the answer the
\* refresh request got (None when none was sent), and the returned Result.
\* passwordResp and opResp are the answers to the auth-with-password request
\* and to the operation request of the call, None when none was sent.
\* prepared is FALSE when the local preparation of the call failed: the record
\* of create / update is not a JSON object, a file of the batch cannot be added.
Last(op, tok, t, auths, calls, rresp, result) ==
    [op |-> op, tokenAtEntry |-> tok, nowAtEntry |-> t, authCalls |-> auths,
     refreshCalls |-> calls, refreshResp |-> rresp, result |-> result,
     passwordResp |-> None, opResp |-> None, prepared |-> TRUE]

\* PocketBase::new, or Client::new: no token, nothing sent yet.
Init ==
    /\ now = 0
    /\ token = None
    /\ net = <<>>
    /\ last = Last("new", None, 0, 0, 0, None, Ok("unit"))
    /\ panicked = FALSE
    /\ requests = None
    /\ api \in {"PocketBase", "Client"}
    /\ call = None
    /\ value = None

\* The clock advances.
Tick ==
    /\ ~panicked
    /\ now < MaxTime
    /\ now' = now + 1
    /\ UNCHANGED <<token, net, last, panicked, requests, api, call, value>>

\* A live BatchBuilder holds the &mut borrow of the session: until it is sent
\* or dropped no other method of the session can be called.
Borrowed == requests # None

IsValid ==
    /\ api = "PocketBase"
    /\ ~panicked
    /\ ~Borrowed
    /\ last' = Last("is_valid", token, now, 0, 0, None, Ok(is_valid(token, now)))
    /\ net' = <<>>
    /\ UNCHANGED <<now, token, panicked, requests, api, call, value>>

\* A response is drawn only for a request that is sent.
AnyAuthResponse == [kind |-> "transport_error", message |-> None, token |-> [payload |-> None]]
AnyOpResponse == [kind |-> "transport_error", status |-> 0, decodable |-> FALSE]

\* The last request of the call is its operation request.
OpRequestSent(reqs) ==
    reqs # <<>> /\ reqs[Len(reqs)].path[Len(reqs[Len(reqs)].path)] # "auth-refresh"

\* authenticate handed the caller a bearer, so the caller goes on to its request.
HasBearer(a) == a.result.ok /\ a.result.val # None

AuthRefresh ==
    /\ api = "PocketBase"
    /\ ~panicked
    /\ ~Borrowed
    /\ \E resp \in (IF token = None THEN {AnyAuthResponse} ELSE AuthResponses) :
         \E r \in {auth_refresh(token, resp)} :
             /\ token' = r.token
             /\ net' = r.net
             /\ last' = Last("auth_refresh", token, now, 0, 1,
                             IF r.net = <<>> THEN None ELSE Some(resp), r.result)
    /\ UNCHANGED <<now, panicked, requests, api, call, value>>

AuthWithPassword ==
    /\ api = "PocketBase"
    /\ ~panicked
    /\ ~Borrowed
    /\ \E identifier \in Identifiers, resp \in AuthResponses :
         \E r \in {auth_with_password(token, identifier, resp)} :
             /\ token' = r.token
             /\ net' = r.net
             /\ panicked' = r.panic
             /\ last' = [Last("auth_with_password", token, now, 0, 0, None, r.result)
                           EXCEPT !.passwordResp = Some(resp)]
    /\ UNCHANGED <<now, requests, api, call, value>>

\* BatchBuilder::send consumes the builder; the record operations are methods
\* of the session and need it unborrowed.
Decorated ==
    /\ api = "PocketBase"
    /\ ~panicked
    /\ requests' = None
    /\ \E op \in DecoratedOps, identifier \in RecordCollections, id \in RecordIds :
       /\ (op = "send") <=> Borrowed
       /\ \E prepOk \in (IF op \in PreparingOps THEN BOOLEAN ELSE {TRUE}) :
          \E rresp \in (IF prepOk /\ token # None /\ ~is_valid(token, now)
                        THEN AuthResponses ELSE {AnyAuthResponse}) :
          \E buildOk \in (IF prepOk /\ HasBearer(authenticate(token, now, rresp))
                          THEN BOOLEAN ELSE {TRUE}) :
          \E oresp \in (IF prepOk /\ buildOk /\ HasBearer(authenticate(token, now, rresp))
                        THEN OpResponses ELSE {AnyOpResponse}) :
            \E r \in {decorated(token, now, op, identifier, id, prepOk, buildOk, rresp, oresp)} :
                /\ token' = r.token
                /\ net' = r.net
                /\ last' = [Last(op, token, now, r.authCalls, r.refreshCalls,
                                 IF r.refreshCalls = 0 THEN None ELSE Some(rresp),
                                 r.result)
                              EXCEPT !.opResp = IF OpRequestSent(r.net)
                                                THEN Some(oresp) ELSE None,
                                     !.prepared = prepOk]
    /\ UNCHANGED <<now, panicked, api, call, value>>

\* PocketBase::create_batch: a builder with no requests, borrowing the session.
CreateBatch ==
    /\ api = "PocketBase"
    /\ ~panicked
    /\ ~Borrowed
    /\ requests' = Some(<<>>)
    /\ net' = <<>>
    /\ last' = Last("create_batch", token, now, 0, 0, None, Ok("unit"))
    /\ UNCHANGED <<now, token, panicked, api, call, value>>

\* BatchRequest::Create / Update / Delete.  `files` is the set of the names of
\* the BTreeMap; Delete has no record, files or options of its own.
BatchRequest(kind, collection, id, record, files, options) ==
    [kind |-> kind, collection |-> collection, id |-> id, record |-> record,
     files |-> files, options |-> options]

\* The record the builder calls below are made with, and the empty map.
BuilderRecord == [n \in {"a"} |-> String("s")]
NoRecord == [n \in {} |-> Null]

\* BatchCollectionBuilder::create / update: serde_json::to_value(record)? comes
\* before the push, so a record that does not serialize pushes nothing.
batch_push(reqs, request, recordOk) ==
    IF recordOk
    THEN [requests |-> Append(reqs, request), result |-> Ok("unit")]
    ELSE [requests |-> reqs, result |-> Err(Custom("json error"))]

BatchCreate ==
    /\ api = "PocketBase"
    /\ ~panicked
    /\ Borrowed
    /\ Len(requests[1]) < MaxBatch
    /\ \E c \in RecordCollections, files \in SUBSET FileNames, recordOk \in BOOLEAN :
         \E r \in {batch_push(requests[1], BatchRequest("Create", c, None, BuilderRecord, files, NoOptions), recordOk)} :
             /\ requests' = Some(r.requests)
             /\ last' = Last("batch_create", token, now, 0, 0, None, r.result)
    /\ net' = <<>>
    /\ UNCHANGED <<now, token, panicked, api, call, value>>

BatchUpdate ==
    /\ api = "PocketBase"
    /\ ~panicked
    /\ Borrowed
    /\ Len(requests[1]) < MaxBatch
    /\ \E c \in RecordCollections, id \in RecordIds, files \in SUBSET FileNames,
          recordOk \in BOOLEAN :
         \E r \in {batch_push(requests[1], BatchRequest("Update", c, Some(id), BuilderRecord, files, NoOptions),
                              recordOk)} :
             /\ requests' = Some(r.requests)
             /\ last' = Last("batch_update", token, now, 0, 0, None, r.result)
    /\ net' = <<>>
    /\ UNCHANGED <<now, token, panicked, api, call, value>>

\* BatchCollectionBuilder::delete cannot fail.
BatchDelete ==
    /\ api = "PocketBase"
    /\ ~panicked
    /\ Borrowed
    /\ Len(requests[1]) < MaxBatch
    /\ \E c \in RecordCollections, id \in RecordIds :
         \E r \in {batch_push(requests[1], BatchRequest("Delete", c, Some(id), NoRecord, {}, NoOptions), TRUE)} :
             /\ requests' = Some(r.requests)
             /\ last' = Last("batch_delete", token, now, 0, 0, None, r.result)
    /\ net' = <<>>
    /\ UNCHANGED <<now, token, panicked, api, call, value>>

\* The builder goes out of scope without send.
BatchDrop ==
    /\ api = "PocketBase"
    /\ ~panicked
    /\ Borrowed
    /\ requests' = None
    /\ UNCHANGED <<now, token, net, last, panicked, api, call, value>>

\* PocketBase::files().get_url(..): builds a url from base_uri, nothing is sent.
Files ==
    /\ api = "PocketBase"
    /\ ~panicked
    /\ ~Borrowed
    /\ net' = <<>>
    /\ last' = Last("get_url", token, now, 0, 0, None, Ok("url"))
    /\ UNCHANGED <<now, token, panicked, requests, api, call, value>>

\* PocketBase::health: one unauthenticated GET, the token is not touched.
Health ==
    /\ api = "PocketBase"
    /\ ~panicked
    /\ ~Borrowed
    /\ \E oresp \in OpResponses :
         /\ net' = <<Request("GET", <<"api", "health">>, None)>>
         /\ last' = Last("health", token, now, 0, 0, None,
                         IF oresp.kind = "response" /\ oresp.decodable
                         THEN Ok("value")
                         ELSE Err(Custom(IF oresp.kind = "response"
                                         THEN "json error" ELSE "transport error")))
    /\ UNCHANGED <<now, token, panicked, requests, api, call, value>>

\* AuthorizedClient::is_expired
ClientIsExpired ==
    /\ api = "Client"
    /\ ~panicked
    /\ token # None
    /\ net' = <<>>
    /\ last' = Last("is_expired", token, now, 0, 0, None, Ok(is_expired(token[1], now)))
    /\ UNCHANGED <<now, token, panicked, requests, api, call, value>>

\* AuthorizedClient::refresh
ClientRefresh ==
    /\ api = "Client"
    /\ ~panicked
    /\ token # None
    /\ \E resp \in ClientAuthResponses :
         \E r \in {client_refresh(token[1], resp)} :
             /\ token' = r.token
             /\ net' = r.net
             /\ panicked' = r.panic
             /\ last' = Last("refresh", token, now, 0, 1, Some(resp), r.result)
    /\ UNCHANGED <<now, requests, api, call, value>>

\* client.collection(identifier).auth_with_password(..) on the plain Client or
\* on an AuthorizedClient; the caller goes on with the client it returns.
ClientAuthWithPassword ==
    /\ api = "Client"
    /\ ~panicked
    /\ \E identifier \in Identifiers, resp \in ClientAuthResponses :
         \E r \in {client_auth_with_password(token, identifier, resp)} :
             /\ token' = r.token
             /\ net' = r.net
             /\ panicked' = r.panic
             /\ last' = [Last("auth_with_password", token, now, 0, 0, None, r.result)
                           EXCEPT !.passwordResp = Some(resp)]
    /\ UNCHANGED <<now, requests, api, call, value>>

\* client.collection(identifier).get_list / get_one / create / update / delete
ClientRequest ==
    /\ api = "Client"
    /\ ~panicked
    /\ \E op \in ClientOps, identifier \in RecordCollections, id \in RecordIds :
       \E prepOk \in (IF op \in PreparingOps THEN BOOLEAN ELSE {TRUE}) :
       \E buildOk \in (IF prepOk THEN BOOLEAN ELSE {TRUE}) :
       \E oresp \in (IF prepOk /\ buildOk THEN OpResponses ELSE {AnyOpResponse}) :
         \E r \in {client_request(token, op, identifier, id, prepOk, buildOk, oresp)} :
             /\ net' = r.net
             /\ last' = [Last(op, token, now, 0, 0, None, r.result)
                           EXCEPT !.opResp = IF OpRequestSent(r.net)
                                             THEN Some(oresp) ELSE None,
                                  !.prepared = prepOk]
    /\ UNCHANGED <<now, token, panicked, requests, api, call, value>>

Next ==
    \/ Tick
    \/ IsValid
    \/ AuthRefresh
    \/ AuthWithPassword
    \/ Decorated
    \/ Health
    \/ Files
    \/ CreateBatch
    \/ BatchCreate
    \/ BatchUpdate
    \/ BatchDelete
    \/ BatchDrop
    \/ ClientIsExpired
    \/ ClientRefresh
    \/ ClientAuthWithPassword
    \/ ClientRequest

Spec == Init /\ [][Next]_vars


(* ------------------------------------------- pure functions of the forms *)

\* serde_urlencoded::to_string(options): the fields that are Some, in the
\* order of the struct, as key / value pairs; no pair gives the empty string.
to_query(options) ==
    (IF options.expand = None THEN <<>> ELSE <<<<"expand", options.expand[1]>>>>)
    \o (IF options.fields = None THEN <<>> ELSE <<<<"fields", options.fields[1]>>>>)

\* A url: the path segments and, after a '?', the query; None: no '?'.
Url(path, query) == [path |-> path, query |-> query]

\* Mutant: the '?' is appended whatever the query is.
records_url_always_query(path, options) ==
    Url(path, Some(to_query(options)))

\* if query.is_empty() { format!("{path}") } else { format!("{path}?{query}") }
records_url(path, options) ==
    IF to_query(options) = <<>>
    THEN Url(path, None)
    ELSE Url(path, Some(to_query(options)))

\* BatchRequest::request: the JSON object of one batched request; body None
\* is an object without the "body" key.
BatchRequest_request(r) ==
    CASE r.kind = "Create" ->
           [method |-> "POST",
            url |-> records_url(<<"api", "collections", r.collection, "records">>,
                                r.options),
            body |-> Some(r.record)]
      [] r.kind = "Update" ->
           [method |-> "PATCH",
            url |-> records_url(<<"api", "collections", r.collection, "records",
                                  r.id[1]>>, r.options),
            body |-> Some(r.record)]
      [] r.kind = "Delete" ->
           [method |-> "DELETE",
            url |-> Url(<<"api", "collections", r.collection, "records", r.id[1]>>,
                        None),
            body |-> None]

\* BatchRequest::files
BatchRequest_files(r) ==
    CASE r.kind \in {"Create", "Update"} ->
           IF r.files = {} THEN None ELSE Some(r.files)
      [] r.kind = "Delete" -> None

\* The names of a BTreeMap of files in its order (sorted keys).
FileOrder == <<"avatar">>
files_in_order(fs) == SelectSeq(FileOrder, LAMBDA n : n \in fs)

\* One file part of a multipart form: the name of the form field and the file.
Part(name, file) == [name |-> name, file |-> file]

\* for (i, files) in files.into_iter().enumerate() { if let Some(files) = files
\* { for (name, path) in files { add_file(format!("requests.{i}.{name}"), ..) } } }
RECURSIVE file_parts(_, _)
file_parts(fileMaps, i) ==
    IF i > Len(fileMaps) THEN <<>>
    ELSE (IF fileMaps[i] = None THEN <<>>
          ELSE LET names == files_in_order(fileMaps[i][1])
               IN  [k \in DOMAIN names |-> Part(<<"requests", i - 1, names[k]>>, names[k])])
         \o file_parts(fileMaps, i + 1)

\* for files in files.into_iter() { if let Some(files) = files
\* { for (name, file) in files { form.part(name.to_string(), ..) } } }
RECURSIVE client_file_parts(_, _)
client_file_parts(fileMaps, i) ==
    IF i > Len(fileMaps) THEN <<>>
    ELSE (IF fileMaps[i] = None THEN <<>>
          ELSE LET names == files_in_order(fileMaps[i][1])
               IN  [k \in DOMAIN names |-> Part(<<names[k]>>, names[k])])
         \o client_file_parts(fileMaps, i + 1)

\* The form BatchBuilder::send of the session builds from its requests: the
\* "requests" array of @jsonPayload and the file parts.
batch_form(reqs) ==
    [payload |-> [i \in DOMAIN reqs |-> BatchRequest_request(reqs[i])],
     files |-> file_parts([i \in DOMAIN reqs |-> BatchRequest_files(reqs[i])], 1)]

\* The form BatchBuilder<P>::send of the client interface builds.
client_batch_form(reqs) ==
    [payload |-> [i \in DOMAIN reqs |-> BatchRequest_request(reqs[i])],
     files |-> client_file_parts([i \in DOMAIN reqs |-> BatchRequest_files(reqs[i])], 1)]

\* Mutant: every value is written as its JSON serialization.
form_text_json(x) == to_json(x)

\* The text of a form field of create / update: `match value { .. }`.
form_text(x) ==
    CASE x[1] = "bool" -> IF x[2] THEN <<"true">> ELSE <<"false">>
      [] x[1] = "number" -> decimal(x[2])
      [] x[1] = "string" -> <<x[2]>>
      [] x[1] \in {"array", "object"} -> to_json(x)

\* for (name, value) in fields { .. form.add_text(name.to_string(), text) }:
\* the text parts of the form, from field i of the map on.
RECURSIVE form_fields(_, _)
form_fields(record, i) ==
    IF i > Len(FieldNames) THEN <<>>
    ELSE (IF FieldNames[i] \in DOMAIN record /\ record[FieldNames[i]][1] # "null"
          THEN <<[name |-> FieldNames[i], text |-> form_text(record[FieldNames[i]])]>>
          ELSE <<>>)
         \o form_fields(record, i + 1)

OtherRecord == [n \in {"b"} |-> Number(7)]

\* The requests the functions above are evaluated on.
BatchRequests ==
    {BatchRequest("Create", c, None, rec, fs, o) :
        c \in RecordCollections, rec \in {BuilderRecord, OtherRecord},
        fs \in SUBSET FileNames, o \in Options}
    \cup {BatchRequest("Update", c, Some(id), rec, fs, o) :
            c \in RecordCollections, id \in RecordIds,
            rec \in {BuilderRecord, OtherRecord},
            fs \in SUBSET FileNames, o \in Options}
    \cup {BatchRequest("Delete", c, Some(id), NoRecord, {}, NoOptions) :
            c \in RecordCollections, id \in RecordIds}

\* The contents of a batch builder: what create / update / delete pushed.
Batches ==
    UNION {[1..n -> {r \in BatchRequests :
                        r.options = NoOptions /\ r.record # OtherRecord}] :
             n \in 0..MaxBatch}

\* The program evaluates one function on one argument.
PureInit ==
    /\ now = 0
    /\ token = None
    /\ net = <<>>
    /\ last = Last("new", None, 0, 0, 0, None, Ok("unit"))
    /\ panicked = FALSE
    /\ requests = None
    /\ api \in {"PocketBase", "Client"}
    /\ value = None
    /\ \/ \E r \in BatchRequests : call = Some([fn |-> "request", arg |-> r])
       \/ \E reqs \in Batches : call = Some([fn |-> "batch_form", arg |-> reqs])
       \/ \E record \in Records : call = Some([fn |-> "form_fields", arg |-> record])

EvalRequest ==
    /\ value = None
    /\ call[1].fn = "request"
    /\ value' = Some(BatchRequest_request(call[1].arg))
    /\ UNCHANGED <<now, token, net, last, panicked, requests, api, call>>

EvalBatchForm ==
    /\ value = None
    /\ call[1].fn = "batch_form"
    /\ api = "PocketBase"
    /\ value' = Some(batch_form(call[1].arg))
    /\ UNCHANGED <<now, token, net, last, panicked, requests, api, call>>

EvalClientBatchForm ==
    /\ value = None
    /\ call[1].fn = "batch_form"
    /\ api = "Client"
    /\ value' = Some(client_batch_form(call[1].arg))
    /\ UNCHANGED <<now, token, net, last, panicked, requests, api, call>>

EvalFormFields ==
    /\ value = None
    /\ call[1].fn = "form_fields"
    /\ value' = Some(form_fields(call[1].arg, 1))
    /\ UNCHANGED <<now, token, net, last, panicked, requests, api, call>>

PureNext ==
    \/ EvalRequest
    \/ EvalBatchForm
    \/ EvalClientBatchForm
    \/ EvalFormFields

PureSpec == PureInit /\ [][PureNext]_vars

(* ----------------------------------------------------------------- claims *)

IsDecorated == api = "PocketBase" /\ last.op \in DecoratedOps

\* The last call was a record operation through Client / AuthorizedClient.
IsClientRequest == api = "Client" /\ last.op \in ClientOps

IsRefreshRequest(q) ==
    q.method = "POST" /\ Len(q.path) = 4 /\ q.path[4] = "auth-refresh"

RefreshRequests == {i \in DOMAIN net : IsRefreshRequest(net[i])}
OpRequests == {i \in DOMAIN net : ~IsRefreshRequest(net[i])}

\* On entry of the last call a token was present and now >= its expiry.
ExpiredAtEntry ==
    /\ last.tokenAtEntry # None
    /\ last.tokenAtEntry[1].expires <= last.nowAtEntry

\* The refresh request of the last call did not produce a new token.
RefreshFailed ==
    /\ last.refreshResp # None
    /\ \/ last.refreshResp[1].kind # "success"
       \/ last.refreshResp[1].token.payload = None

\* C1: a decorated call calls refresh at most once, only when on entry a token
\* was present and is_valid() was false; it does not refresh again when the
\* refreshed token is itself already expired.
C1_RefreshAtMostOnce ==
    IsDecorated =>
        /\ last.refreshCalls <= 1
        /\ Cardinality(RefreshRequests) <= 1
        /\ (last.refreshCalls = 1 \/ RefreshRequests # {}) => ExpiredAtEntry

C1_Witness ==
    /\ IsDecorated
    /\ last.refreshCalls = 1
    /\ last.result.ok
    /\ token # None
    /\ token[1].expires <= last.nowAtEntry
    /\ Len(net) = 2

\* C2: with an expired token, a call that reaches the decorator issues exactly
\* one auth-refresh request, as the first request of the call; the operation
\* request, when sent, comes after it and carries the bearer the refresh stored.
C2_RefreshedBearerAttached ==
    (IsDecorated /\ last.authCalls = 1 /\ ExpiredAtEntry) =>
        /\ Cardinality(RefreshRequests) = 1
        /\ 1 \in RefreshRequests
        /\ \A i \in OpRequests :
             /\ i = 2
             /\ ~RefreshFailed
             /\ token # None
             /\ net[i].authorization = Some(last.refreshResp[1].token)
             /\ net[i].authorization = Some(token[1].auth)

C2_Witness ==
    /\ IsDecorated
    /\ ExpiredAtEntry
    /\ last.tokenAtEntry[1].expires < last.nowAtEntry
    /\ Len(net) = 2
    /\ net[2].authorization # Some(last.tokenAtEntry[1].auth)

\* C3: is_valid() is true iff a token is present and now < token.expires; it is
\* false without a token, with a past expiry and at now == expires.
C3_IsValidStrict ==
    last.op = "is_valid" =>
        last.result.val = (/\ last.tokenAtEntry # None
                           /\ last.nowAtEntry < last.tokenAtEntry[1].expires)

C3_Witness ==
    /\ last.op = "is_valid"
    /\ last.tokenAtEntry # None
    /\ last.tokenAtEntry[1].expires = last.nowAtEntry
    /\ last.result.val = FALSE

\* C4: auth_refresh on a session without a token returns an error, sends no
\* request and leaves the session without a token.
C4_RefreshWithoutToken ==
    (last.op = "auth_refresh" /\ last.tokenAtEntry = None) =>
        /\ ~last.result.ok
        /\ net = <<>>
        /\ token = None

C4_Witness ==
    /\ last.op = "auth_refresh"
    /\ last.tokenAtEntry = None
    /\ ~last.result.ok

\* C5 as stated: after a successful refresh the stored bearer differs from the
\* bearer held before, and is_valid() is true when the returned exp is in the
\* future.
C5_Original ==
    (last.op = "auth_refresh" /\ last.result.ok) =>
        /\ token[1].auth # last.tokenAtEntry[1].auth
        /\ last.refreshResp[1].token.payload[1].exp > last.nowAtEntry
             => is_valid(token, last.nowAtEntry)

\* C5 (amended): after a successful refresh the stored bearer is the bearer the
\* server returned in the refresh response (the same as before when the server
\* returned the same one), and is_valid() is true when its exp is in the future.
C5_StoresReturnedBearer ==
    (last.op = "auth_refresh" /\ last.result.ok) =>
        /\ token # None
        /\ last.refreshResp # None
        /\ token[1].auth = last.refreshResp[1].token
        /\ last.refreshResp[1].token.payload[1].exp > last.nowAtEntry
             => is_valid(token, last.nowAtEntry)

C5_Witness ==
    /\ last.op = "auth_refresh"
    /\ last.result.ok
    /\ token[1].auth # last.tokenAtEntry[1].auth
    /\ token[1].expires > last.nowAtEntry

\* C6: every auth_refresh on a session that holds a token, explicit or made by
\* the decorator, issues exactly one request, whatever the outcome.
C6_OneRequestPerRefresh ==
    (last.refreshCalls = 1 /\ last.tokenAtEntry # None) =>
        /\ Cardinality(RefreshRequests) = 1
        /\ last.op = "auth_refresh" => Len(net) = 1

C6_Witness ==
    /\ last.op = "auth_refresh"
    /\ last.tokenAtEntry # None
    /\ RefreshFailed
    /\ ~last.result.ok
    /\ Len(net) = 1

\* C7: a decorated operation issues at most two requests, at most one refresh
\* followed by at most one operation request; when the implicit refresh fails,
\* its error is what the caller gets and no operation request is sent.
C7_NoRetry ==
    IsDecorated =>
        /\ Len(net) <= 2
        /\ Cardinality(RefreshRequests) <= 1
        /\ Cardinality(OpRequests) <= 1
        /\ \A i \in RefreshRequests, j \in OpRequests : i < j
        /\ (last.refreshCalls = 1 /\ RefreshFailed) =>
             /\ OpRequests = {}
             /\ ~last.result.ok
             /\ last.result = auth_refresh(last.tokenAtEntry, last.refreshResp[1]).result

C7_Witness ==
    /\ IsDecorated
    /\ last.refreshCalls = 1
    /\ last.refreshResp[1].kind = "error"
    /\ Len(net) = 1
    /\ ~last.result.ok

\* C8 as stated: without a token a decorated call does not refresh and sends
\* the operation request without an Authorization header.
C8_Original ==
    (IsDecorated /\ last.authCalls = 1 /\ last.tokenAtEntry = None) =>
        /\ last.refreshCalls = 0
        /\ Len(net) = 1
        /\ net[1].authorization = None

\* C8 (amended): without a token a decorated call does not refresh and sends
\* no request at all: it fails with Custom("client is not authorized") and the
\* session stays without a token.
C8_NoTokenNoRequest ==
    (IsDecorated /\ last.authCalls = 1 /\ last.tokenAtEntry = None) =>
        /\ last.refreshCalls = 0
        /\ net = <<>>
        /\ last.result = Err(Custom("client is not authorized"))
        /\ token = None

C8_Witness ==
    /\ IsDecorated
    /\ last.authCalls = 1
    /\ last.tokenAtEntry = None
    /\ ~last.result.ok

\* C9: when the server answers a refresh with an error response, refresh fails
\* with the Authorization kind carrying the server's message.
C9_RefreshErrorKind ==
    (last.op = "auth_refresh" /\ last.refreshResp # None
       /\ last.refreshResp[1].kind = "error") =>
        /\ ~last.result.ok
        /\ last.result.err.kind = "Authorization"
        /\ last.refreshResp[1].message # None
             => last.result.err.message = last.refreshResp[1].message[1]

\* C10: the error of refresh without a token is the Unauthorized kind.
C10_NoTokenErrorKind ==
    (last.op = "auth_refresh" /\ last.tokenAtEntry = None) =>
        /\ ~last.result.ok
        /\ last.result.err = Unauthorized

\* The refresh request of the last call produced a new token.
RefreshSucceeded ==
    /\ last.refreshCalls = 1
    /\ last.refreshResp # None
    /\ ~RefreshFailed

\* C11: is_expired() is true exactly when the token is not valid under the
\* rule "valid iff now < expires"; at now == expires it reports expired.
C11_IsExpiredComplement ==
    last.op = "is_expired" =>
        last.result.val = ~is_valid(last.tokenAtEntry, last.nowAtEntry)

\* C12 as stated: a request built through an AuthorizedClient whose token is
\* expired when it is sent is preceded by a refresh and carries the refreshed
\* bearer.
C12_Original ==
    (IsClientRequest /\ OpRequests # {} /\ last.tokenAtEntry # None
       /\ is_expired(last.tokenAtEntry[1], last.nowAtEntry)) =>
        /\ last.refreshCalls = 1
        /\ RefreshRequests # {}
        /\ \A i \in RefreshRequests, j \in OpRequests : i < j
        /\ last.refreshResp # None
        /\ \A j \in OpRequests :
             net[j].authorization = Some(last.refreshResp[1].token)

\* C12 (amended): a request built through Client / AuthorizedClient never
\* refreshes: the call sends at most the operation request, which carries the
\* bearer the client holds at that time, expired or not, and leaves the token
\* as it is; the token changes only by an explicit refresh().
C12_NoImplicitRefresh ==
    IsClientRequest =>
        /\ last.refreshCalls = 0
        /\ RefreshRequests = {}
        /\ Len(net) <= 1
        /\ token = last.tokenAtEntry
        /\ \A j \in OpRequests : net[j].authorization = bearer_of(last.tokenAtEntry)

C12_Witness ==
    /\ IsClientRequest
    /\ last.tokenAtEntry # None
    /\ is_expired(last.tokenAtEntry[1], last.nowAtEntry)
    /\ Len(net) = 1
    /\ net[1].authorization = Some(last.tokenAtEntry[1].auth)
    /\ last.result.ok

\* C13: the refresh request is POST /api/collections/{collection}/auth-refresh
\* with the collection of the token held on entry and that token's bearer as
\* the Authorization header, on the session and on the authorized client.
C13_RefreshRequestShape ==
    (last.refreshCalls = 1 /\ last.tokenAtEntry # None) =>
        /\ net # <<>>
        /\ net[1] = [method |-> "POST",
                     path |-> <<"api", "collections",
                                last.tokenAtEntry[1].collection, "auth-refresh">>,
                     authorization |-> Some(last.tokenAtEntry[1].auth)]

C13_Witness ==
    /\ last.op = "refresh"
    /\ last.result.ok
    /\ token[1].auth # last.tokenAtEntry[1].auth
    /\ net[1].path[3] = "users"
    /\ net[1].authorization = Some(last.tokenAtEntry[1].auth)

\* C14: the stored token never mixes fields: its expiry, refreshable flag and
\* type are the claims of the bearer stored with it, and after a call that
\* stored a token the bearer is the one of that call's server response.
C14_TokenFromOneResponse ==
    /\ token # None =>
         /\ decode_unsafe(token[1].auth).ok
         /\ token[1].expires = decode_unsafe(token[1].auth).claims[1].exp
         /\ token[1].refreshable = decode_unsafe(token[1].auth).claims[1].refreshable
         /\ token[1].ty = decode_unsafe(token[1].auth).claims[1].ty
    /\ (RefreshSucceeded /\ ~panicked) =>
         /\ token # None
         /\ token[1].auth = last.refreshResp[1].token
    /\ (last.op = "auth_with_password" /\ last.result.ok) =>
         /\ token # None
         /\ token[1].auth = last.passwordResp[1].token

C14_Witness ==
    /\ RefreshSucceeded
    /\ token # None
    /\ token[1].auth # last.tokenAtEntry[1].auth
    /\ token[1].expires # last.tokenAtEntry[1].expires
    /\ token[1].refreshable # last.tokenAtEntry[1].refreshable

\* C15: a session without a token gets one only in a step that is a successful
\* auth_with_password on a collection C, and then the token's collection is C
\* and its bearer the one the server returned; no other operation (refresh,
\* record calls, health, files, building a batch) makes a token appear.
C15_OnlyPasswordAuthenticates ==
    [][(api = "PocketBase" /\ token = None /\ token' # None) =>
          /\ last'.op = "auth_with_password"
          /\ last'.result.ok
          /\ Len(net') = 1
          /\ net'[1].path[4] = "auth-with-password"
          /\ token'[1].collection = net'[1].path[3]
          /\ last'.passwordResp # None
          /\ token'[1].auth = last'.passwordResp[1].token]_vars

C15_Witness ==
    /\ api = "PocketBase"
    /\ last.op = "auth_with_password"
    /\ last.result.ok
    /\ last.tokenAtEntry = None
    /\ token # None
    /\ token[1].collection = "users"

\* C16: refresh sends its request only when the collection and the bearer of
\* the token are both non-empty; with an empty one it fails without a request.
C16_EmptyFieldsNoRequest ==
    (last.refreshCalls = 1 /\ last.tokenAtEntry # None
       /\ last.tokenAtEntry[1].collection = "") =>
        /\ net = <<>>
        /\ ~last.result.ok

\* C17: there is no terminal state with a token: whenever a token is present a
\* refresh can be called and issues its request, whatever the validity and the
\* refreshable flag of the token and however many refreshes came before.
C17_RefreshAlwaysAttempted ==
    /\ (api = "PocketBase" /\ token # None /\ ~panicked /\ ~Borrowed) =>
         ENABLED (AuthRefresh /\ net' # <<>>)
    /\ (api = "Client" /\ token # None /\ ~panicked) =>
         ENABLED (ClientRefresh /\ net' # <<>>)

C17_Witness ==
    /\ last.op = "auth_refresh"
    /\ last.tokenAtEntry # None
    /\ ~last.tokenAtEntry[1].refreshable
    /\ last.tokenAtEntry[1].expires > last.nowAtEntry
    /\ Len(net) = 1
    /\ token # None
    /\ ~token[1].refreshable

C19_OkOnlySuccessStatus ==
    (IsDecorated \/ IsClientRequest) =>
        /\ last.result.ok =>
             /\ last.opResp # None
             /\ last.opResp[1].kind = "response"
             /\ last.opResp[1].status \in 200..299
        /\ (last.opResp # None /\ last.opResp[1].kind = "response"
              /\ last.opResp[1].status \notin 200..299) =>
             /\ ~last.result.ok
             /\ last.result.err.kind = "Custom"

C19_Witness ==
    /\ IsDecorated
    /\ last.op = "send"
    /\ last.opResp # None
    /\ last.opResp[1].kind = "response"
    /\ last.opResp[1].status = 404
    /\ last.opResp[1].decodable
    /\ ~last.result.ok

\* C20: on the session, a failed auth_refresh of a present token leaves no
\* token; on a session without a token is_valid() is false, auth_refresh fails
\* without a request and a decorated call fails with 'client is not
\* authorized' without a request, and the session stays without a token.
C20_FailedRefreshDropsToken ==
    api = "PocketBase" =>
        /\ (last.refreshCalls = 1 /\ last.tokenAtEntry # None /\ RefreshFailed) =>
             /\ ~last.result.ok
             /\ token = None
             /\ ~is_valid(token, now)
        /\ (last.op = "is_valid" /\ last.tokenAtEntry = None) =>
             last.result.val = FALSE
        /\ (last.op = "auth_refresh" /\ last.tokenAtEntry = None) =>
             /\ ~last.result.ok
             /\ net = <<>>
             /\ token = None
        /\ (IsDecorated /\ last.authCalls = 1 /\ last.tokenAtEntry = None) =>
             /\ last.result = Err(Custom("client is not authorized"))
             /\ net = <<>>
             /\ token = None

C20_Witness ==
    /\ IsDecorated
    /\ last.refreshCalls = 1
    /\ last.tokenAtEntry # None
    /\ last.refreshResp[1].kind = "success"
    /\ RefreshFailed
    /\ token = None
    /\ Len(net) = 1

\* C21: on an AuthorizedClient a refresh() that returns an error (or panics)
\* leaves the stored token exactly as it was; the token differs from the one
\* held on entry only when refresh() returned Ok.
C21_FailedRefreshKeepsToken ==
    (api = "Client" /\ last.op = "refresh") =>
        /\ ~last.result.ok => token = last.tokenAtEntry
        /\ token # last.tokenAtEntry => last.result.ok
        /\ token # None

C21_Witness ==
    /\ api = "Client"
    /\ last.op = "refresh"
    /\ last.refreshResp[1].kind = "success"
    /\ ~last.result.ok
    /\ ~panicked
    /\ token = last.tokenAtEntry
    /\ Len(net) = 1

\* C22: a step of the session changes the token slot only when it is an
\* auth_with_password, an explicit auth_refresh, or a decorated call that found
\* the token present and expired on entry; the passing of time, decorated calls
\* with a valid token, health, files and batch building leave it unchanged.
C22_TokenFrame ==
    [][(api = "PocketBase" /\ token' # token) =>
          \/ last'.op = "auth_with_password"
          \/ last'.op = "auth_refresh"
          \/ /\ last'.op \in DecoratedOps
             /\ last'.tokenAtEntry = token
             /\ last'.nowAtEntry = now
             /\ token # None
             /\ ~is_valid(token, now)
             /\ last'.refreshCalls = 1]_vars

C22_Witness ==
    /\ IsDecorated
    /\ last.tokenAtEntry # None
    /\ last.tokenAtEntry[1].expires = last.nowAtEntry + 1
    /\ token = last.tokenAtEntry
    /\ last.refreshCalls = 0
    /\ Len(net) = 1
    /\ last.result.ok

\* C23: validity is monotone between token replacements: a step takes the
\* session from is_valid() false to is_valid() true only by storing a new
\* token, in a successful auth_with_password or a successful refresh.
C23_ValidityMonotone ==
    [][(api = "PocketBase" /\ ~is_valid(token, now) /\ is_valid(token', now')) =>
          /\ token' # token
          /\ token' # None
          /\ \/ last'.op = "auth_with_password" /\ last'.result.ok
             \/ /\ last'.refreshCalls = 1
                /\ last'.refreshResp # None
                /\ last'.refreshResp[1].kind = "success"
                /\ token'[1].auth = last'.refreshResp[1].token]_vars

C23_Witness ==
    /\ api = "PocketBase"
    /\ last.op = "auth_refresh"
    /\ last.result.ok
    /\ last.nowAtEntry = now
    /\ last.tokenAtEntry[1].expires < now
    /\ is_valid(token, now)

\* C24: a refresh never changes the collection of the token: a token that is
\* present after a step has the collection of the successful auth_with_password
\* of that step, or else the collection the token had before the step.
C24_CollectionFixed ==
    [][token' # None =>
          IF last'.op = "auth_with_password" /\ last'.result.ok
          THEN /\ Len(net') = 1
               /\ token'[1].collection = net'[1].path[3]
          ELSE /\ token # None
               /\ token'[1].collection = token[1].collection]_vars

C24_Witness ==
    /\ IsDecorated
    /\ RefreshSucceeded
    /\ token # None
    /\ token[1].auth # last.tokenAtEntry[1].auth
    /\ token[1].collection = "users"
    /\ net[1].path[3] = "users"

\* C25: an auth_with_password that returns an error (transport failure,
\* rejection by the server, undecodable bearer) leaves the token slot as it
\* was: a session authenticated before the call holds the same token after it.
C25_FailedPasswordKeepsToken ==
    (last.op = "auth_with_password" /\ ~last.result.ok) =>
        token = last.tokenAtEntry

C25_Witness ==
    /\ api = "PocketBase"
    /\ last.op = "auth_with_password"
    /\ last.passwordResp[1].kind = "error"
    /\ ~last.result.ok
    /\ last.tokenAtEntry # None
    /\ token = last.tokenAtEntry

\* C26: create and update with a record that is not a JSON object fail with
\* Custom 'expected record to be a mapping of fields to values' before any
\* network activity: no authenticate, no refresh even with an expired token,
\* no request, and the token is unchanged.
C26_RecordCheckedFirst ==
    (IsDecorated /\ last.op \in {"create", "update"} /\ ~last.prepared) =>
        /\ last.result =
             Err(Custom("expected record to be a mapping of fields to values"))
        /\ last.authCalls = 0
        /\ last.refreshCalls = 0
        /\ net = <<>>
        /\ token = last.tokenAtEntry

C26_Witness ==
    /\ IsDecorated
    /\ last.op = "update"
    /\ ~last.prepared
    /\ ExpiredAtEntry
    /\ token = last.tokenAtEntry
    /\ net = <<>>

\* The function fn has been evaluated on its argument.
Evaluated(fn) == call # None /\ value # None /\ call[1].fn = fn

\* C27: in every BatchBuilder::send the requests array of @jsonPayload lists
\* the batched requests in the order of the builder calls, and every file of
\* the request at position i (counting all requests) is attached once, under
\* the form field name requests.{i}.{name}; there is no other file part.
C27_BatchFormLayout ==
    Evaluated("batch_form") =>
        /\ DOMAIN value[1].payload = DOMAIN call[1].arg
        /\ \A i \in DOMAIN call[1].arg :
             /\ value[1].payload[i].method =
                  (CASE call[1].arg[i].kind = "Create" -> "POST"
                     [] call[1].arg[i].kind = "Update" -> "PATCH"
                     [] call[1].arg[i].kind = "Delete" -> "DELETE")
             /\ \A n \in call[1].arg[i].files :
                  Cardinality({k \in DOMAIN value[1].files :
                                 value[1].files[k].name = <<"requests", i - 1, n>>
                                 /\ value[1].files[k].file = n}) = 1
        /\ \A k \in DOMAIN value[1].files :
             \E i \in DOMAIN call[1].arg :
                \E n \in call[1].arg[i].files :
                   value[1].files[k].name = <<"requests", i - 1, n>>

\* C28: BatchRequest::request gives POST /api/collections/{c}/records with the
\* record as body for Create, PATCH /api/collections/{c}/records/{id} with the
\* record as body for Update, DELETE /api/collections/{c}/records/{id} without
\* a body for Delete; the url of Create and Update has a '?query' suffix iff
\* expand or fields is set, the url of Delete never.
C28_RequestEndpoint ==
    Evaluated("request") =>
        CASE call[1].arg.kind = "Create" ->
               /\ value[1].method = "POST"
               /\ value[1].url.path =
                    <<"api", "collections", call[1].arg.collection, "records">>
               /\ value[1].body = Some(call[1].arg.record)
               /\ value[1].url.query # None
                    <=> (call[1].arg.options.expand # None
                           \/ call[1].arg.options.fields # None)
               /\ value[1].url.query # None => value[1].url.query[1] # <<>>
          [] call[1].arg.kind = "Update" ->
               /\ value[1].method = "PATCH"
               /\ value[1].url.path =
                    <<"api", "collections", call[1].arg.collection, "records",
                      call[1].arg.id[1]>>
               /\ value[1].body = Some(call[1].arg.record)
               /\ value[1].url.query # None
                    <=> (call[1].arg.options.expand # None
                           \/ call[1].arg.options.fields # None)
               /\ value[1].url.query # None => value[1].url.query[1] # <<>>
          [] call[1].arg.kind = "Delete" ->
               /\ value[1].method = "DELETE"
               /\ value[1].url.path =
                    <<"api", "collections", call[1].arg.collection, "records",
                      call[1].arg.id[1]>>
               /\ value[1].body = None
               /\ value[1].url.query = None

C28_Witness ==
    /\ Evaluated("request")
    /\ call[1].arg.kind = "Update"
    /\ call[1].arg.options.expand = None
    /\ call[1].arg.options.fields # None
    /\ value[1].url.query = Some(<<<<"fields", "x">>>>)

\* The text a form field is expected to hold, value by value.
ExpectedText(x) ==
    CASE x = Bool(TRUE) -> <<"true">>
      [] x = Bool(FALSE) -> <<"false">>
      [] x = Number(7) -> <<"7">>
      [] x = Number(12) -> <<"1", "2">>
      [] x = String("s") -> <<"s">>
      [] x = Array(<<>>) -> <<"[", "]">>
      [] x = Array(<<Number(7), String("s")>>) ->
            <<"[", "7", ",", "\"", "s", "\"", "]">>
      [] x = Object(<<<<"k", Bool(FALSE)>>, <<"n", Null>>>>) ->
            <<"{", "\"", "k", "\"", ":", "false", ",", "\"", "n", "\"", ":", "null", "}">>

\* C29: of the fields of the record of create / update, a null field gives no
\* form part; a boolean, number or string field gives one text part with its
\* plain value, an array or object field one text part with its JSON
\* serialization; each non-null field gives exactly one part under its name.
C29_FormFields ==
    Evaluated("form_fields") =>
        /\ \A i \in DOMAIN FieldNames :
             IF FieldNames[i] \notin DOMAIN call[1].arg
                  \/ call[1].arg[FieldNames[i]][1] = "null"
             THEN \A k \in DOMAIN value[1] : value[1][k].name # FieldNames[i]
             ELSE /\ Cardinality({k \in DOMAIN value[1] :
                                    value[1][k].name = FieldNames[i]}) = 1
                  /\ \A k \in DOMAIN value[1] :
                       value[1][k].name = FieldNames[i] =>
                         value[1][k].text = ExpectedText(call[1].arg[FieldNames[i]])
        /\ \A k \in DOMAIN value[1] : value[1][k].name \in DOMAIN call[1].arg

C29_Witness ==
    /\ Evaluated("form_fields")
    /\ DOMAIN call[1].arg = {"a", "b"}
    /\ call[1].arg["a"] = Null
    /\ call[1].arg["b"] = String("s")
    /\ value[1] = <<[name |-> "b", text |-> <<"s">>]>>

====
